---- MODULE Spec2Model ----
(***************************************************************************)
(* One run of claude-statusline.py: main() reads the JSON descriptor from  *)
(* stdin, reads the session transcript, scans it backward                  *)
(* (parse_transcript_usage) and prints one status line.                    *)
(*                                                                         *)
(* JSON objects are functions from key strings to values (a Python dict):  *)
(* "k in d" is k \in DOMAIN d and d.get(k, v) is Get(d, k, v).  A line of  *)
(* the transcript is [kind, obj]: kind says what json.loads makes of the   *)
(* stripped line, obj is the decoded dict when kind = "dict".              *)
(* Indices are Python's (0-based): Line(i) is lines[i].                    *)
(*                                                                         *)
(* Each loop iteration is one step.  The transcript is drawn when the file *)
(* is read (OpenTranscript).  What only shapes the printed text - the git  *)
(* branch, the directory name, the colour band, the MM:SS rendering of the *)
(* duration - is not carried in the state; stdout records which line was   *)
(* printed, and the variables hold the values that go into it.             *)
(***************************************************************************)
EXTENDS Integers, Sequences, FiniteSets, TLC

VARIABLES
    stdin,                \* what sys.stdin.read().strip() returns
    pc,                   \* position in main / parse_transcript_usage
    stdout,               \* lines printed on standard output
    stderr,               \* lines printed on standard error (tracebacks)
    exit_code,            \* the process's exit status, once pc = "exit"
    model,                \* main: model
    transcript_file,      \* how open()/readlines() of transcript_path ended
    lines,                \* parse_transcript_usage: lines
    idx,                  \* outer loop index
    j,                    \* inner loop index
    context_used_tokens,
    answer_timestamp,
    question_timestamp,
    is_running,
    final_model,
    response_duration,    \* main: response_duration
    base_url              \* main: base_url

vars == <<stdin, pc, stdout, stderr, exit_code, model, transcript_file,
          lines, idx, j, context_used_tokens, answer_timestamp,
          question_timestamp, is_running, final_model, response_duration,
          base_url>>

scan_vars == <<transcript_file, lines, idx, j, context_used_tokens,
               answer_timestamp, question_timestamp, is_running, final_model>>

main_vars == <<model, response_duration, base_url>>

-----------------------------------------------------------------------------
(* Bounds of the explored inputs *)

\* longest transcript built from CoreLines
MaxLen == 3
\* largest value of one usage counter
MaxTok == 2
\* largest timestamp carried by a transcript record
MaxTime == 2
\* largest advance of the clock between the two time.time() calls
ClockStep == 1

(* Program constant *)
MAX_STDIN_SIZE == 10485760

\* The invocation time: later than every timestamp a record carries, by more
\* than the clock can advance between two consecutive readings.
Now == MaxTime + ClockStep + 1

-----------------------------------------------------------------------------
(* Python dicts *)

EmptyDict == [k \in {} |-> k]

Has(d, k) == k \in DOMAIN d

Get(d, k, default) == IF k \in DOMAIN d THEN d[k] ELSE default

\* what d.get(k) returns for a missing string-valued key
None == "None"

-----------------------------------------------------------------------------
(* Timestamps: the value under "timestamp", or a time.time() reading.      *)
(*   num  a JSON number (int or float), t its value                        *)
(*   iso  a string datetime.fromisoformat accepts, t the instant, aware    *)
(*        whether it carries a UTC offset                                  *)
(*   str  a string that is no ISO date                                     *)
(*   null JSON null                                                        *)
(*   now  the float time.time() returned; t = 0 for the first call (line   *)
(*        142), 1 for the second (line 143)                                *)

Ts(kind, t, aware) == [kind |-> kind, t |-> t, aware |-> aware]

RecordTimestamps ==
    {Ts("num", t, FALSE) : t \in 1..MaxTime}
    \cup {Ts("iso", t, TRUE) : t \in 1..MaxTime}
    \cup {Ts("iso", 1, FALSE), Ts("str", 0, FALSE), Ts("null", 0, FALSE)}

TimeAnswerDefault == Ts("now", 0, FALSE)

TimeQuestionDefault == Ts("now", 1, FALSE)

Unset == Ts("null", 0, FALSE)

-----------------------------------------------------------------------------
(* Transcript lines *)

Blank == [kind |-> "blank", obj |-> EmptyDict]

\* text json.loads rejects (JSONDecodeError)
Garbage == [kind |-> "text", obj |-> EmptyDict]

\* valid JSON that is not an object: [], 42, "x", null
NonDict == [kind |-> "value", obj |-> EmptyDict]

Dict(o) == [kind |-> "dict", obj |-> o]

CounterKeys == {"input_tokens", "cache_creation_input_tokens",
                "cache_read_input_tokens", "output_tokens"}

Usages == UNION {[S -> 0..MaxTok] : S \in SUBSET CounterKeys}

Models == {"", "claude-x", "claude-y"}

StopReasons == {"end_turn", "tool_use"}

UsageParts == {EmptyDict} \cup {"usage" :> u : u \in Usages}

ModelParts == {EmptyDict} \cup {"model" :> m : m \in Models}

StopParts == {EmptyDict} \cup {"stop_reason" :> s : s \in StopReasons}

TsParts == {EmptyDict} \cup {"timestamp" :> t : t \in RecordTimestamps}

Assistant(message, rest) ==
    Dict(("type" :> "assistant") @@ ("message" :> message) @@ rest)

User(rest) == Dict(("type" :> "user") @@ rest)

\* the usage block of the round-trip scenario: two counters only
UsageInOut == [input_tokens |-> MaxTok, output_tokens |-> 1]

A1 == Assistant([usage |-> UsageInOut, model |-> "claude-x",
                 stop_reason |-> "end_turn"],
                "timestamp" :> Ts("num", MaxTime, FALSE))

A2 == Assistant([usage |-> [input_tokens |-> 0,
                            cache_creation_input_tokens |-> 1,
                            cache_read_input_tokens |-> 1],
                 model |-> "claude-y", stop_reason |-> "tool_use"],
                "timestamp" :> Ts("iso", MaxTime, TRUE))

A3 == Assistant([usage |-> EmptyDict], EmptyDict)

ANoUsage == Assistant([model |-> "claude-y", stop_reason |-> "end_turn"],
                      "timestamp" :> Ts("num", 1, FALSE))

U1 == User(("message" :> EmptyDict) @@ ("timestamp" :> Ts("num", 1, FALSE)))

U2 == User(("message" :> EmptyDict) @@ ("timestamp" :> Ts("iso", 1, TRUE)))

UTool == User(("message" :> EmptyDict) @@ ("toolUseResult" :> TRUE)
              @@ ("timestamp" :> Ts("num", MaxTime, FALSE)))

UNoMessage == User("timestamp" :> Ts("iso", MaxTime, TRUE))

CoreLines ==
    {Blank, Garbage, NonDict,
     Dict("type" :> "summary"), Dict("type" :> "file-history-snapshot"),
     Dict("type" :> "system"),
     A1, A2, A3, ANoUsage, U1, U2, UTool, UNoMessage}

AssistantVariants ==
    {Assistant(u @@ m @@ s, t) :
        u \in {EmptyDict, "usage" :> UsageInOut},
        m \in ModelParts, s \in StopParts, t \in TsParts}

UserVariants ==
    {User(m @@ r @@ t) :
        m \in {EmptyDict, "message" :> EmptyDict},
        r \in {EmptyDict, "toolUseResult" :> TRUE},
        t \in TsParts}

\* every sequence of core lines up to MaxLen
StructureLogs == UNION {[1..n -> CoreLines] : n \in 0..MaxLen}

\* one assistant record, every usage block
UsageLogs == {<<Assistant(u @@ [model |-> "claude-x"], EmptyDict)>> :
                 u \in UsageParts}

\* a user record before an assistant record, every field combination
PairLogs == {<<u, a>> : u \in UserVariants, a \in AssistantVariants}

\* two user records before an assistant record
QuestionLogs == {<<u, v, A1>> : u \in UserVariants, v \in UserVariants}

Logs == StructureLogs \cup UsageLogs \cup PairLogs \cup QuestionLogs

-----------------------------------------------------------------------------
(* Standard input *)

RequiredKeys == {"model", "workspace", "transcript_path"}

\* len: len(input_data) after strip; json: what json.loads makes of it;
\* keys: the top-level keys of the object; display_name / current_dir:
\* whether data["model"] / data["workspace"] hold them.
StdinInputs ==
    {d \in [len : {0, MAX_STDIN_SIZE, MAX_STDIN_SIZE + 1},
            json : {"invalid", "object", "array", "number"},
            keys : SUBSET RequiredKeys,
            display_name : BOOLEAN,
            current_dir : BOOLEAN] :
        /\ d.len = 0 => d.json = "invalid"
        /\ d.json # "object" => d.keys = {}
        /\ d.display_name => "model" \in d.keys
        /\ d.current_dir => "workspace" \in d.keys}

\* the display name the descriptor gives
StdinModel == "X"

-----------------------------------------------------------------------------

Init ==
    /\ stdin \in StdinInputs
    /\ pc = "read_stdin"
    /\ stdout = <<>>
    /\ stderr = <<>>
    /\ exit_code = 0
    /\ model = ""
    /\ transcript_file = "unopened"
    /\ lines = <<>>
    /\ idx = 0
    /\ j = 0
    /\ context_used_tokens = 0
    /\ answer_timestamp = Unset
    /\ question_timestamp = Unset
    /\ is_running = FALSE
    /\ final_model = ""
    /\ response_duration = 0
    /\ base_url = ""

\* sys.exit(1) after print(message)
Fatal(message) ==
    /\ stdout' = Append(stdout, message)
    /\ exit_code' = 1
    /\ pc' = "exit"
    /\ UNCHANGED stderr

\* an exception nothing catches: the interpreter prints the traceback on
\* standard error and exits with status 1
Uncaught(exception) ==
    /\ stderr' = Append(stderr, exception)
    /\ exit_code' = 1
    /\ pc' = "exit"
    /\ UNCHANGED stdout

Goto(label) ==
    /\ pc' = label
    /\ UNCHANGED <<stdout, stderr, exit_code>>

ReadStdinEmpty ==
    /\ pc = "read_stdin"
    /\ stdin.len = 0
    /\ Fatal("Error: stdin is empty")
    /\ UNCHANGED <<stdin, scan_vars, main_vars>>

ReadStdin ==
    /\ pc = "read_stdin"
    /\ stdin.len # 0
    /\ Goto("validate")
    /\ UNCHANGED <<stdin, scan_vars, main_vars>>

\* validate_stdin_input
ValidateTooLarge ==
    /\ pc = "validate"
    /\ stdin.len > MAX_STDIN_SIZE
    /\ Fatal("Error: Input too large")
    /\ UNCHANGED <<stdin, scan_vars, main_vars>>

ValidateOk ==
    /\ pc = "validate"
    /\ ~(stdin.len > MAX_STDIN_SIZE)
    /\ Goto("parse")
    /\ UNCHANGED <<stdin, scan_vars, main_vars>>

\* parse_json_input: json.loads raises JSONDecodeError
ParseJsonDecodeError ==
    /\ pc = "parse"
    /\ stdin.json = "invalid"
    /\ Fatal("Error JSON parsing")
    /\ UNCHANGED <<stdin, scan_vars, main_vars>>

\* the keys "key not in data" finds in data: an array (or a string) holds
\* none of them
KeysIn(data) == IF data.json = "object" THEN data.keys ELSE {}

\* parse_json_input: "key not in data" on a number raises TypeError
ParseJsonTypeError ==
    /\ pc = "parse"
    /\ stdin.json = "number"
    /\ Uncaught("TypeError")
    /\ UNCHANGED <<stdin, scan_vars, main_vars>>

ParseJsonMissingKey ==
    /\ pc = "parse"
    /\ stdin.json \in {"object", "array"}
    /\ RequiredKeys \ KeysIn(stdin) # {}
    /\ Fatal("Error: Missing required key")
    /\ UNCHANGED <<stdin, scan_vars, main_vars>>

ParseJsonOk ==
    /\ pc = "parse"
    /\ stdin.json \in {"object", "array"}
    /\ RequiredKeys \ KeysIn(stdin) = {}
    /\ Goto("extract")
    /\ UNCHANGED <<stdin, scan_vars, main_vars>>

\* main: data["model"]["display_name"], data["workspace"]["current_dir"]
ExtractKeyError ==
    /\ pc = "extract"
    /\ ~(stdin.display_name /\ stdin.current_dir)
    /\ Uncaught("KeyError")
    /\ UNCHANGED <<stdin, scan_vars, main_vars>>

ExtractOk ==
    /\ pc = "extract"
    /\ stdin.display_name /\ stdin.current_dir
    /\ model' = StdinModel
    /\ Goto("git")
    /\ UNCHANGED <<stdin, scan_vars, response_duration, base_url>>

\* get_git_branch: returns the branch annotation, or "" when there is no
\* .git, when reading .git/HEAD raises OSError (caught at line 124) or when
\* HEAD names no branch.  The string only goes into the printed line.
GetGitBranch ==
    /\ pc = "git"
    /\ Goto("scan")
    /\ UNCHANGED <<stdin, scan_vars, main_vars>>

-----------------------------------------------------------------------------
(* parse_transcript_usage *)

Line(i) == lines[i + 1]

\* lines 141-145, then open() raises OSError (no such file, permission
\* denied): the except clause of line 213 returns the values set so far
OpenTranscriptOSError ==
    /\ pc = "scan"
    /\ transcript_file' = "OSError"
    /\ context_used_tokens' = 0
    /\ answer_timestamp' = TimeAnswerDefault
    /\ question_timestamp' = TimeQuestionDefault
    /\ is_running' = TRUE
    /\ final_model' = model
    /\ Goto("scan_done")
    /\ UNCHANGED <<stdin, main_vars, lines, idx, j>>

\* readlines() meets bytes that are not UTF-8: UnicodeDecodeError is a
\* ValueError, which line 213 does not catch
OpenTranscriptUnicodeError ==
    /\ pc = "scan"
    /\ transcript_file' = "UnicodeDecodeError"
    /\ context_used_tokens' = 0
    /\ answer_timestamp' = TimeAnswerDefault
    /\ question_timestamp' = TimeQuestionDefault
    /\ is_running' = TRUE
    /\ final_model' = model
    /\ Uncaught("UnicodeDecodeError")
    /\ UNCHANGED <<stdin, main_vars, lines, idx, j>>

\* line 150 left out: the initial True of line 144 stays
RunningAtOpen_KeepsTrue(content) == TRUE

\* line 150
RunningAtOpen(content) == Len(content) > 0

\* lines 141-153: the file is read
OpenTranscript ==
    /\ pc = "scan"
    /\ \E content \in Logs :
          /\ lines' = content
          /\ is_running' = RunningAtOpen(content)
          /\ idx' = Len(content) - 1
    /\ transcript_file' = "read"
    /\ context_used_tokens' = 0
    /\ answer_timestamp' = TimeAnswerDefault
    /\ question_timestamp' = TimeQuestionDefault
    /\ final_model' = model
    /\ Goto("outer")
    /\ UNCHANGED <<stdin, main_vars, j>>

\* line 164
IsBoundary(obj) ==
    Get(obj, "type", None) \in {"summary", "file-history-snapshot"}

\* lines 169-171
IsAssistantUsage(obj) ==
    /\ Get(obj, "type", None) = "assistant"
    /\ Has(obj, "message")
    /\ Has(obj["message"], "usage")

\* lines 205-207 without the toolUseResult test
IsQuestion_AnyUserMessage(obj) ==
    /\ Get(obj, "type", None) = "user"
    /\ Has(obj, "message")

\* lines 205-207
IsQuestion(obj) ==
    /\ Get(obj, "type", None) = "user"
    /\ Has(obj, "message")
    /\ ~Has(obj, "toolUseResult")

\* lines 173-182 with output_tokens left out of the sum
SumUsage_WithoutOutput(usage) ==
    Get(usage, "input_tokens", 0)
    + Get(usage, "cache_creation_input_tokens", 0)
    + Get(usage, "cache_read_input_tokens", 0)

\* lines 173-182
SumUsage(usage) ==
    Get(usage, "input_tokens", 0)
    + Get(usage, "cache_creation_input_tokens", 0)
    + Get(usage, "cache_read_input_tokens", 0)
    + Get(usage, "output_tokens", 0)

\* line 187: the model of the message when it is truthy
ModelOf(message, current) ==
    IF Get(message, "model", "") # "" THEN message["model"] ELSE current

\* line 191
EndsTurn(message) == Get(message, "stop_reason", None) = "end_turn"

\* line 153: the range is exhausted
OuterExhausted ==
    /\ pc = "outer"
    /\ idx < 0
    /\ Goto("scan_done")
    /\ UNCHANGED <<stdin, main_vars, scan_vars>>

\* lines 154-156
OuterSkipBlank ==
    /\ pc = "outer"
    /\ idx >= 0
    /\ Line(idx).kind = "blank"
    /\ idx' = idx - 1
    /\ Goto("outer")
    /\ UNCHANGED <<stdin, main_vars, transcript_file, lines, j,
                   context_used_tokens, answer_timestamp, question_timestamp,
                   is_running, final_model>>

\* lines 158-161
OuterSkipUndecodable ==
    /\ pc = "outer"
    /\ idx >= 0
    /\ Line(idx).kind = "text"
    /\ idx' = idx - 1
    /\ Goto("outer")
    /\ UNCHANGED <<stdin, main_vars, transcript_file, lines, j,
                   context_used_tokens, answer_timestamp, question_timestamp,
                   is_running, final_model>>

\* line 164: obj.get on a list, number, string or None raises
\* AttributeError, which neither line 160 nor line 213 catches
OuterNonDict ==
    /\ pc = "outer"
    /\ idx >= 0
    /\ Line(idx).kind = "value"
    /\ Uncaught("AttributeError: transcript line")
    /\ UNCHANGED <<stdin, main_vars, scan_vars>>

\* lines 164-166 with break in place of continue
OuterBoundary_Breaks ==
    /\ pc = "outer"
    /\ idx >= 0
    /\ Line(idx).kind = "dict"
    /\ IsBoundary(Line(idx).obj)
    /\ is_running' = FALSE
    /\ Goto("scan_done")
    /\ UNCHANGED <<stdin, main_vars, transcript_file, lines, idx, j,
                   context_used_tokens, answer_timestamp, question_timestamp,
                   final_model>>

\* lines 164-166
OuterBoundary ==
    /\ pc = "outer"
    /\ idx >= 0
    /\ Line(idx).kind = "dict"
    /\ IsBoundary(Line(idx).obj)
    /\ is_running' = FALSE
    /\ idx' = idx - 1
    /\ Goto("outer")
    /\ UNCHANGED <<stdin, main_vars, transcript_file, lines, j,
                   context_used_tokens, answer_timestamp, question_timestamp,
                   final_model>>

\* lines 169-195: the assistant record is taken and the inner loop starts
OuterAssistantUsage ==
    /\ pc = "outer"
    /\ idx >= 0
    /\ Line(idx).kind = "dict"
    /\ ~IsBoundary(Line(idx).obj)
    /\ IsAssistantUsage(Line(idx).obj)
    /\ LET obj == Line(idx).obj
       IN  /\ context_used_tokens' = SumUsage(obj["message"]["usage"])
           /\ answer_timestamp' = Get(obj, "timestamp", answer_timestamp)
           /\ final_model' = ModelOf(obj["message"], final_model)
           /\ is_running' = IF EndsTurn(obj["message"]) THEN FALSE
                            ELSE is_running
    /\ j' = idx - 1
    /\ Goto("inner")
    /\ UNCHANGED <<stdin, main_vars, transcript_file, lines, idx,
                   question_timestamp>>

\* any other record: the loop goes on
OuterOther ==
    /\ pc = "outer"
    /\ idx >= 0
    /\ Line(idx).kind = "dict"
    /\ ~IsBoundary(Line(idx).obj)
    /\ ~IsAssistantUsage(Line(idx).obj)
    /\ idx' = idx - 1
    /\ Goto("outer")
    /\ UNCHANGED <<stdin, main_vars, transcript_file, lines, j,
                   context_used_tokens, answer_timestamp, question_timestamp,
                   is_running, final_model>>

\* line 211 left out: the outer loop goes on to the earlier records
BreakOuter_Missing ==
    /\ Goto("outer")
    /\ idx' = idx - 1

\* line 211: break
BreakOuter ==
    /\ Goto("scan_done")
    /\ UNCHANGED idx

\* line 195: the range is exhausted
InnerExhausted ==
    /\ pc = "inner"
    /\ j < 0
    /\ BreakOuter
    /\ UNCHANGED <<stdin, main_vars, transcript_file, lines, j,
                   context_used_tokens, answer_timestamp, question_timestamp,
                   is_running, final_model>>

\* lines 196-203
InnerSkip ==
    /\ pc = "inner"
    /\ j >= 0
    /\ Line(j).kind \in {"blank", "text"}
    /\ j' = j - 1
    /\ Goto("inner")
    /\ UNCHANGED <<stdin, main_vars, transcript_file, lines, idx,
                   context_used_tokens, answer_timestamp, question_timestamp,
                   is_running, final_model>>

\* line 205: prev_obj.get raises AttributeError
InnerNonDict ==
    /\ pc = "inner"
    /\ j >= 0
    /\ Line(j).kind = "value"
    /\ Uncaught("AttributeError: transcript line")
    /\ UNCHANGED <<stdin, main_vars, scan_vars>>

\* lines 205-211
InnerUserFound ==
    /\ pc = "inner"
    /\ j >= 0
    /\ Line(j).kind = "dict"
    /\ IsQuestion(Line(j).obj)
    /\ question_timestamp' = Get(Line(j).obj, "timestamp", question_timestamp)
    /\ BreakOuter
    /\ UNCHANGED <<stdin, main_vars, transcript_file, lines, j,
                   context_used_tokens, answer_timestamp, is_running,
                   final_model>>

InnerOther ==
    /\ pc = "inner"
    /\ j >= 0
    /\ Line(j).kind = "dict"
    /\ ~IsQuestion(Line(j).obj)
    /\ j' = j - 1
    /\ Goto("inner")
    /\ UNCHANGED <<stdin, main_vars, transcript_file, lines, idx,
                   context_used_tokens, answer_timestamp, question_timestamp,
                   is_running, final_model>>

-----------------------------------------------------------------------------
(* main, after the scan *)

\* lines 312-317 with final_model dropped
ScanReturn_KeepsStdinModel ==
    /\ pc = "scan_done"
    /\ Goto("duration")
    /\ UNCHANGED <<stdin, scan_vars, main_vars>>

\* lines 312-317
ScanReturn ==
    /\ pc = "scan_done"
    /\ model' = IF final_model # model THEN final_model ELSE model
    /\ Goto("duration")
    /\ UNCHANGED <<stdin, scan_vars, response_duration, base_url>>

IsStr(ts) == ts.kind \in {"iso", "str"}

IsNumber(ts) == ts.kind \in {"num", "now"}

\* the float a numeric timestamp holds; the second clock reading is later
\* than the first by skew
Seconds(ts, skew) == IF ts.kind = "now" THEN Now + ts.t * skew ELSE ts.t

\* calculate_response_duration
calculate_response_duration(answer, question, skew) ==
    IF IsStr(answer) /\ IsStr(question)
    THEN IF answer.kind = "str" \/ question.kind = "str"
         THEN 0                              \* fromisoformat: ValueError
         ELSE IF answer.aware # question.aware
              THEN 0                         \* aware - naive: TypeError
              ELSE answer.t - question.t
    ELSE IF IsNumber(answer) /\ IsNumber(question)
         THEN Seconds(answer, skew) - Seconds(question, skew)
         ELSE 0

\* line 320
CalculateDuration ==
    /\ pc = "duration"
    /\ \E skew \in 0..ClockStep :
          response_duration' =
              calculate_response_duration(answer_timestamp,
                                          question_timestamp, skew)
    /\ Goto("base_url")
    /\ UNCHANGED <<stdin, scan_vars, model, base_url>>

\* get_base_url: the host of ANTHROPIC_BASE_URL, else of the settings file's
\* anthropic_base_url, else None ("unknown" in main); a settings file that
\* is missing, unreadable or not JSON gives None
BaseUrlSources == {"env", "settings", "no settings", "OSError",
                   "JSONDecodeError"}

GetBaseUrl ==
    /\ pc = "base_url"
    /\ \E source \in BaseUrlSources :
          base_url' = IF source \in {"env", "settings"} THEN "example.com"
                      ELSE "unknown"
    /\ Goto("print")
    /\ UNCHANGED <<stdin, scan_vars, model, response_duration>>

\* get_base_url: the settings file holds JSON that is not an object:
\* settings.get raises AttributeError, which line 280 does not catch
GetBaseUrlNonDict ==
    /\ pc = "base_url"
    /\ Uncaught("AttributeError: settings")
    /\ UNCHANGED <<stdin, scan_vars, main_vars>>

\* lines 327-339
PrintStatus ==
    /\ pc = "print"
    /\ stdout' = Append(stdout, "status line")
    /\ exit_code' = 0
    /\ pc' = "exit"
    /\ UNCHANGED <<stdin, stderr, scan_vars, main_vars>>

Next ==
    \/ ReadStdinEmpty
    \/ ReadStdin
    \/ ValidateTooLarge
    \/ ValidateOk
    \/ ParseJsonDecodeError
    \/ ParseJsonTypeError
    \/ ParseJsonMissingKey
    \/ ParseJsonOk
    \/ ExtractKeyError
    \/ ExtractOk
    \/ GetGitBranch
    \/ OpenTranscriptOSError
    \/ OpenTranscriptUnicodeError
    \/ OpenTranscript
    \/ OuterExhausted
    \/ OuterSkipBlank
    \/ OuterSkipUndecodable
    \/ OuterNonDict
    \/ OuterBoundary
    \/ OuterAssistantUsage
    \/ OuterOther
    \/ InnerExhausted
    \/ InnerSkip
    \/ InnerNonDict
    \/ InnerUserFound
    \/ InnerOther
    \/ ScanReturn
    \/ CalculateDuration
    \/ GetBaseUrl
    \/ GetBaseUrlNonDict
    \/ PrintStatus

Spec == Init /\ [][Next]_vars

-----------------------------------------------------------------------------
(* What the properties speak of, read off the log itself *)

\* parse_transcript_usage has returned to main
Returned == pc \in {"scan_done", "duration", "base_url", "print"}

\* the status line has been printed
Printed == pc = "exit" /\ exit_code = 0 /\ stdout = <<"status line">>

Max(S) == CHOOSE m \in S : \A x \in S : x <= m

Abs(n) == IF n < 0 THEN 0 - n ELSE n

RecordAt(ls, i) == ls[i + 1].obj

TypeIs(ls, i, type) ==
    /\ ls[i + 1].kind = "dict"
    /\ "type" \in DOMAIN RecordAt(ls, i)
    /\ RecordAt(ls, i)["type"] = type

\* the positions of the assistant records that carry a usage block
AssistantUsageAt(ls) ==
    {i \in 0..(Len(ls) - 1) :
        /\ TypeIs(ls, i, "assistant")
        /\ "message" \in DOMAIN RecordAt(ls, i)
        /\ "usage" \in DOMAIN RecordAt(ls, i)["message"]}

\* the positions before k of the user records with a message and no
\* toolUseResult marker
QuestionsBefore(ls, k) ==
    {i \in 0..(k - 1) :
        /\ TypeIs(ls, i, "user")
        /\ "message" \in DOMAIN RecordAt(ls, i)
        /\ "toolUseResult" \notin DOMAIN RecordAt(ls, i)}

BoundariesAt(ls) ==
    {i \in 0..(Len(ls) - 1) :
        TypeIs(ls, i, "summary") \/ TypeIs(ls, i, "file-history-snapshot")}

HasSelected == transcript_file = "read" /\ AssistantUsageAt(lines) # {}

\* the assistant-usage record closest to the end of the log
Selected == Max(AssistantUsageAt(lines))

SelectedMessage == RecordAt(lines, Selected)["message"]

Counter(usage, name) == IF name \in DOMAIN usage THEN usage[name] ELSE 0

FourCounters(usage) ==
    Counter(usage, "input_tokens")
    + Counter(usage, "cache_creation_input_tokens")
    + Counter(usage, "cache_read_input_tokens")
    + Counter(usage, "output_tokens")

TimestampAt(ls, i, default) ==
    IF "timestamp" \in DOMAIN RecordAt(ls, i)
    THEN RecordAt(ls, i)["timestamp"] ELSE default

NamesModel(message) == "model" \in DOMAIN message /\ message["model"] # ""

SelectedEndsTurn ==
    /\ "stop_reason" \in DOMAIN SelectedMessage
    /\ SelectedMessage["stop_reason"] = "end_turn"

-----------------------------------------------------------------------------
(* C1: with several assistant records carrying usage, tokens, answer       *)
(* timestamp, model and stop_reason come from the one closest to the end   *)
(* of the log: at every step the values held are the initial ones or that  *)
(* record's, the outer loop never reaches a position before it, and on     *)
(* return all four are that record's.                                      *)
C1_LastAssistantUsageWins ==
    HasSelected =>
        /\ idx >= Selected
        /\ context_used_tokens
              \in {0, FourCounters(SelectedMessage["usage"])}
        /\ answer_timestamp
              \in {TimeAnswerDefault,
                   TimestampAt(lines, Selected, TimeAnswerDefault)}
        /\ final_model
              \in {StdinModel}
                  \cup (IF NamesModel(SelectedMessage)
                        THEN {SelectedMessage["model"]} ELSE {})
        /\ Returned =>
              /\ idx = Selected
              /\ context_used_tokens = FourCounters(SelectedMessage["usage"])
              /\ answer_timestamp
                    = TimestampAt(lines, Selected, TimeAnswerDefault)
              /\ final_model = IF NamesModel(SelectedMessage)
                               THEN SelectedMessage["model"] ELSE StdinModel
              /\ SelectedEndsTurn => ~is_running

\* two assistant-usage records, the earlier one with the larger count and
\* another model, and the later one's values returned
C1_Witness ==
    /\ Returned /\ HasSelected
    /\ \E e \in AssistantUsageAt(lines) :
          /\ e < Selected
          /\ FourCounters(RecordAt(lines, e)["message"]["usage"])
                > context_used_tokens
          /\ NamesModel(RecordAt(lines, e)["message"])
          /\ RecordAt(lines, e)["message"]["model"] # final_model
          /\ final_model # StdinModel

(* C2: the reported token count is the sum of the four counters of the     *)
(* selected record, an absent counter counting 0; it is 0 when there is no *)
(* such record.                                                            *)
C2_TokensAreSumOfFourCounters ==
    (Returned \/ Printed) =>
        context_used_tokens =
            IF HasSelected THEN FourCounters(SelectedMessage["usage"]) ELSE 0

\* input and output alone, as in the round-trip scenario
C2_Witness ==
    /\ Printed /\ HasSelected
    /\ DOMAIN SelectedMessage["usage"] = {"input_tokens", "output_tokens"}
    /\ SelectedMessage["usage"]["input_tokens"] > 0
    /\ SelectedMessage["usage"]["output_tokens"] > 0
    /\ context_used_tokens = SelectedMessage["usage"]["input_tokens"]
                             + SelectedMessage["usage"]["output_tokens"]

(* C3: the question timestamp comes from the nearest record before the     *)
(* selected one that is a user record with a message and without           *)
(* toolUseResult; the inner loop stops at that record; without such a      *)
(* record the default stays.                                               *)
C3_QuestionFromNearestGenuineUser ==
    (Returned /\ HasSelected) =>
        IF QuestionsBefore(lines, Selected) = {}
        THEN /\ question_timestamp = TimeQuestionDefault
             /\ j < 0
        ELSE LET q == Max(QuestionsBefore(lines, Selected))
             IN  /\ j = q
                 /\ "toolUseResult" \notin DOMAIN RecordAt(lines, j)
                 /\ question_timestamp
                       = TimestampAt(lines, q, TimeQuestionDefault)

\* the record right before the selected one is a user record with
\* toolUseResult; the timestamp is the one of the genuine user record
\* before it
C3_Witness ==
    /\ Returned /\ HasSelected /\ Selected >= 2
    /\ TypeIs(lines, Selected - 1, "user")
    /\ "message" \in DOMAIN RecordAt(lines, Selected - 1)
    /\ "toolUseResult" \in DOMAIN RecordAt(lines, Selected - 1)
    /\ "timestamp" \in DOMAIN RecordAt(lines, Selected - 1)
    /\ Selected - 2 \in QuestionsBefore(lines, Selected)
    /\ "timestamp" \in DOMAIN RecordAt(lines, Selected - 2)
    /\ question_timestamp = RecordAt(lines, Selected - 2)["timestamp"]
    /\ question_timestamp # RecordAt(lines, Selected - 1)["timestamp"]

(* C4: for a transcript that was read: an empty log gives is_running =     *)
(* FALSE; a non-empty log without boundary record whose selected record,   *)
(* if any, has no end_turn gives TRUE; a selected record with end_turn     *)
(* gives FALSE.                                                            *)
C4_RunningFlag ==
    (Returned /\ transcript_file = "read") =>
        /\ Len(lines) = 0 => ~is_running
        /\ (/\ Len(lines) > 0
            /\ BoundariesAt(lines) = {}
            /\ (HasSelected => ~SelectedEndsTurn)) => is_running
        /\ (HasSelected /\ SelectedEndsTurn) => ~is_running

C4_Witness ==
    /\ Returned /\ HasSelected
    /\ BoundariesAt(lines) = {}
    /\ "stop_reason" \in DOMAIN SelectedMessage
    /\ ~SelectedEndsTurn
    /\ is_running

\* an exception left parse_transcript_usage
ScanRaised ==
    /\ pc = "exit"
    /\ stderr \in {<<"AttributeError: transcript line">>,
                   <<"UnicodeDecodeError">>}

\* what the scan is to return for the log ls
Snapshot(ls) ==
    IF AssistantUsageAt(ls) = {}
    THEN [tokens |-> 0, answer |-> TimeAnswerDefault,
          question |-> TimeQuestionDefault, model |-> StdinModel]
    ELSE LET k == Max(AssistantUsageAt(ls))
             message == RecordAt(ls, k)["message"]
             Q == QuestionsBefore(ls, k)
         IN  [tokens |-> FourCounters(message["usage"]),
              answer |-> TimestampAt(ls, k, TimeAnswerDefault),
              question |-> IF Q = {} THEN TimeQuestionDefault
                           ELSE TimestampAt(ls, Max(Q), TimeQuestionDefault),
              model |-> IF NamesModel(message) THEN message["model"]
                        ELSE StdinModel]

IsEventRecord(line) == line.kind \notin {"text", "value"}

\* the log without the lines that are no event records
WithoutMalformed(ls) == SelectSeq(ls, IsEventRecord)

ReturnedSnapshot ==
    [tokens |-> context_used_tokens, answer |-> answer_timestamp,
     question |-> question_timestamp, model |-> final_model]

(* C5: a line that is no event record (not JSON, or JSON that is no object) *)
(* is treated as absent: the scan of a transcript that was read never       *)
(* raises, and it returns what it returns for the log without those lines.  *)
C5_MalformedLinesAreAbsent ==
    /\ transcript_file = "read" => ~ScanRaised
    /\ (Returned /\ transcript_file = "read") =>
          ReturnedSnapshot = Snapshot(WithoutMalformed(lines))

(* C6: when the transcript cannot be read, or none of its lines decodes,    *)
(* the scan does not abort and returns the defaults: 0 tokens, both         *)
(* timestamps the invocation time, the caller's model, and is_running =     *)
(* (log non-empty).                                                         *)
C6_DefaultsWhenNothingReadable ==
    (\/ transcript_file = "OSError"
     \/ /\ transcript_file = "read"
        /\ \A i \in 1..Len(lines) : lines[i].kind = "text") =>
        /\ ~ScanRaised
        /\ Returned =>
              /\ context_used_tokens = 0
              /\ answer_timestamp = TimeAnswerDefault
              /\ question_timestamp = TimeQuestionDefault
              /\ final_model = StdinModel
              /\ is_running = (Len(lines) > 0)

\* main holds the response duration
DurationKnown == pc \in {"base_url", "print"} \/ Printed

(* C7: a selected record without qualifying user record before it leaves    *)
(* the question timestamp at its default, and the response duration is 0 up *)
(* to the advance of the clock between the two readings, whatever the       *)
(* record's timestamp is.                                                   *)
C7_NoQuestionGivesZeroDuration ==
    (/\ DurationKnown
     /\ HasSelected
     /\ QuestionsBefore(lines, Selected) = {}) =>
        /\ question_timestamp = TimeQuestionDefault
        /\ Abs(response_duration) <= ClockStep

\* the inputs the run is to refuse
FatalInput ==
    \/ stdin.len = 0
    \/ stdin.len > MAX_STDIN_SIZE
    \/ stdin.json = "invalid"
    \/ stdin.json # "object"
    \/ stdin.keys # {"model", "workspace", "transcript_path"}
    \/ ~stdin.display_name
    \/ ~stdin.current_dir

(* C8: the run ends with exit code 1, one diagnostic on standard output and *)
(* no status line exactly for empty, oversized or invalid stdin or a        *)
(* missing required field; every other run prints one status line and       *)
(* exits 0.                                                                 *)
C8_ExitCodeAndOutput ==
    pc = "exit" =>
        IF FatalInput
        THEN /\ exit_code = 1
             /\ Len(stdout) = 1
             /\ stdout[1] # "status line"
        ELSE /\ exit_code = 0
             /\ stdout = <<"status line">>

\* boundary records lie between the selected record and the end of the log
BoundaryAfterSelected ==
    /\ HasSelected
    /\ \E b \in BoundariesAt(lines) : b > Selected

C9_FoundBehindBoundary ==
    (Returned /\ BoundaryAfterSelected) =>
        /\ idx = Selected
        /\ ReturnedSnapshot.tokens = Snapshot(lines).tokens
        /\ ReturnedSnapshot.answer = Snapshot(lines).answer
        /\ ReturnedSnapshot.model = Snapshot(lines).model
        /\ ~is_running

C9_NeverBackToRunning ==
    (pc \in {"outer", "inner"} /\ ~is_running) => ~is_running'

(* C9: a summary / file-history-snapshot record never ends the scan: an     *)
(* assistant-usage record with boundary records after it is still found and *)
(* is_running is FALSE; no step of the scan takes is_running from FALSE to  *)
(* TRUE.                                                                    *)
C9_BoundaryOnlyTightens ==
    [][C9_FoundBehindBoundary' /\ C9_NeverBackToRunning]_vars

\* found behind two boundary records, not running though the record does
\* not end the turn
C9_Witness ==
    /\ Returned /\ HasSelected
    /\ Cardinality({b \in BoundariesAt(lines) : b > Selected}) >= 2
    /\ ~SelectedEndsTurn
    /\ context_used_tokens = FourCounters(SelectedMessage["usage"])
    /\ context_used_tokens > 0
    /\ ~is_running

\* main holds the model it prints
ModelKnown == pc \in {"duration", "base_url", "print"} \/ Printed

(* C10: the model shown is the one the selected record names, when it names *)
(* one; otherwise, and without selected record, the model given on stdin.   *)
C10_ModelShown ==
    ModelKnown =>
        model = IF HasSelected /\ NamesModel(SelectedMessage)
                THEN SelectedMessage["model"] ELSE StdinModel

\* the selected record's model is printed, not the one of stdin nor the
\* one an earlier assistant record names
C10_Witness ==
    /\ Printed /\ HasSelected
    /\ NamesModel(SelectedMessage)
    /\ model = SelectedMessage["model"]
    /\ model # StdinModel
    /\ \E e \in AssistantUsageAt(lines) :
          /\ e < Selected
          /\ NamesModel(RecordAt(lines, e)["message"])
          /\ RecordAt(lines, e)["message"]["model"] # model

====
